---- MODULE Spec2Model ----
(***************************************************************************)
(* Model of the Daily Reminder service worker (sw.js): the install and     *)
(* activate handlers, the fetch listener and the two cache-first           *)
(* resolution functions, run against a Cache Storage, a network and the    *)
(* service-worker lifecycle of the hosting browser.                        *)
(***************************************************************************)
EXTENDS Integers, Sequences, FiniteSets, TLC

\* ------------------------------------------------------------------ bounds
\* number of fetch events dispatched in one behaviour
MaxTasks == 2

\* --------------------------------------------------------- program constants
CACHE_NAME == "daily-reminder-v1"

STATIC_CACHE_URLS ==
  << "./", "./index.html", "./styles.css", "./script.js", "./manifest.json" >>

ManifestSet == { STATIC_CACHE_URLS[i] : i \in 1..Len(STATIC_CACHE_URLS) }

\* Namespaces left in the Cache Storage by earlier deployments of the same
\* worker (the same code with an older CACHE_NAME).
PREV_CACHE_NAME == "daily-reminder-v0"
LEGACY_CACHE_NAME == "daily-reminder-beta"

Names == { CACHE_NAME, PREV_CACHE_NAME, LEGACY_CACHE_NAME }

\* The worker of the source ("cur") and the previously deployed version
\* ("prev").
Workers == { "prev", "cur" }

CacheNameOf(w) == IF w = "cur" THEN CACHE_NAME ELSE PREV_CACHE_NAME

\* ----------------------------------------------------------------- requests
\* The fetch events the browser delivers: method, destination and URL.
Req(m, d, u) == [method |-> m, destination |-> d, url |-> u]

Requests ==
  { Req("GET", "document", "./"),
    Req("GET", "document", "./notes.html"),
    Req("GET", "style",    "./styles.css"),
    Req("GET", "manifest", "./manifest.json"),
    Req("GET", "image",    "./missing.png"),
    Req("GET", "script",   "./theme.css.js"),
    Req("POST", "",        "./") }

Urls == ManifestSet \cup { r.url : r \in Requests }

\* String.prototype.includes: needle occurs as a contiguous substring.
Includes(s, needle) ==
  \E i \in 1..(Len(s) - Len(needle) + 1) :
      SubSeq(s, i, i + Len(needle) - 1) = needle

\* ---------------------------------------------------------------- responses
Resp(st, ct, b, s) == [status |-> st, ctype |-> ct, body |-> b, src |-> s]

\* "no entry" / undefined
Absent == Resp(0, "", "", "")

\* A response produced by the network for url; src records who fetched it:
\* the install of a namespace (its name) or a resolution task ("fetch").
NetResponse(url, st, s) == Resp(st, "server", url, s)

\* new Response(body, {headers}) has status 200 unless a status is given.
OfflineNotice ==
  Resp(200, "text/html", "<!DOCTYPE html>...You're Offline...", "synthetic")
CssFallback ==
  Resp(200, "text/css", "/* Offline fallback styles */", "synthetic")
JsFallback ==
  Resp(200, "application/javascript",
       "// Offline fallback script...console.log(...)", "synthetic")
NotFound ==
  Resp(404, "text/plain", "Asset not available offline", "synthetic")

\* -------------------------------------------------------------------- state
VARIABLES
  cacheNames,     \* CacheStorage keys, in creation order
  store,          \* store[name][url]: the entry of url in namespace name
  pendingPuts,    \* cache.put operations started and not yet settled
  wstate,         \* lifecycle state of each worker
  active,         \* the registration's active worker, or "none"
  clientsOpen,    \* pages of the origin are open
  skipWaitingFlag,\* the skip waiting flag of the worker "cur"
  inbox,          \* message events dispatched to "cur" and not yet handled
  installPc,      \* position of the install handler's promise chain
  installResult,  \* which branch of the install chain ran
  installPromise, \* the promise handed to event.waitUntil by install
  activatePc,     \* position of the activate handler's promise chain
  pendingDeletes, \* caches.delete operations started and not yet settled
  activatePromise,\* the promise handed to event.waitUntil by activate
  claimed,        \* self.clients.claim() was called by "cur"
  tasks,          \* the fetch events and their resolution tasks
  textarea,       \* script.js: this.textarea.value
  localStorage,   \* script.js: the item stored under STORAGE_KEY
  saveStatus,     \* script.js: the status shown by setSaveStatus
  saveTimeout,    \* script.js: this.saveTimeout, 0 for null
  timers,         \* script.js: the setTimeout timers that have not fired
  lastTyped       \* the content after the user's last input event

vars == << cacheNames, store, pendingPuts, wstate, active, clientsOpen,
           skipWaitingFlag, inbox, installPc, installResult, installPromise,
           activatePc, pendingDeletes, activatePromise, claimed, tasks,
           textarea, localStorage, saveStatus, saveTimeout, timers,
           lastTyped >>

cacheVars == << cacheNames, store, pendingPuts >>
installVars == << installPc, installResult, installPromise >>
activateVars == << activatePc, pendingDeletes, activatePromise, claimed >>
appVars == << textarea, localStorage, saveStatus, saveTimeout, timers,
              lastTyped >>
workerVars == << cacheVars, wstate, active, clientsOpen, skipWaitingFlag,
                 inbox, installVars, activateVars, tasks >>

TaskIds == 1..MaxTasks

EmptyCache == [u \in Urls |-> Absent]

\* The content an earlier successful install left in namespace name.
InstalledCache(name) ==
  [u \in Urls |-> IF u \in ManifestSet THEN NetResponse(u, 200, name)
                                       ELSE Absent]

IdleTask ==
  [pc |-> "idle", w |-> "none", req |-> Req("", "", ""), route |-> "none",
   cause |-> "none", via |-> "none", fetches |-> 0, resp |-> Absent]

\* Set of the elements of a sequence
Range(s) == { s[i] : i \in 1..Len(s) }

\* CacheStorage.match(url): the first namespace, in creation order, that
\* holds an entry for url answers; Absent when none does.
RECURSIVE MatchIn(_, _, _)
MatchIn(names, st, url) ==
  IF names = << >> THEN Absent
  ELSE IF st[Head(names)][url] # Absent THEN st[Head(names)][url]
  ELSE MatchIn(Tail(names), st, url)

CachesMatch(url) == MatchIn(cacheNames, store, url)

\* caches.open(name): creates the namespace when it does not exist.
OpenedNames(name) ==
  IF name \in Range(cacheNames) THEN cacheNames ELSE Append(cacheNames, name)

\* The contents the user can give the textarea.
Contents == { "", "milk", "milk, eggs" }

\* localStorage.getItem returns null: nothing was ever saved.
NoItem == "null"

\* The largest number of input events of one page visit.
MaxInputs == 3

\* The page after the constructor of DailyReminderApp ran: loadContent put
\* the saved item, if there is one, into the textarea; no save is scheduled.
LoadedPage(item) ==
  /\ localStorage = item
  /\ textarea = (IF item # NoItem THEN item ELSE "")
  /\ saveStatus = (IF item # NoItem THEN "saved" ELSE "initial")
  /\ saveTimeout = 0
  /\ timers = {}
  /\ lastTyped = (IF item # NoItem THEN item ELSE "")

\* The states the origin can be in when the worker script is first loaded:
\* a first visit, or an earlier version active with its namespace populated,
\* possibly with a namespace of a still older deployment left behind.
InitWorker ==
  /\ cacheNames \in { << >>, << LEGACY_CACHE_NAME, PREV_CACHE_NAME >> }
  /\ store = [n \in Names |-> IF n \in Range(cacheNames)
                               THEN InstalledCache(n) ELSE EmptyCache]
  /\ pendingPuts = {}
  /\ wstate = [w \in Workers |->
                 IF w = "prev" /\ cacheNames # << >> THEN "activated"
                 ELSE "parsed"]
  /\ active = IF cacheNames # << >> THEN "prev" ELSE "none"
  /\ clientsOpen = TRUE
  /\ skipWaitingFlag = FALSE
  /\ inbox = << >>
  /\ installPc = "idle"
  /\ installResult = "none"
  /\ installPromise = "pending"
  /\ activatePc = "idle"
  /\ pendingDeletes = {}
  /\ activatePromise = "pending"
  /\ claimed = FALSE
  /\ tasks = [t \in TaskIds |-> IdleTask]

\* A first visit of the page.
Init == InitWorker /\ LoadedPage(NoItem)

\* ------------------------------------------------------------ install (cur)
\* The browser dispatches the install event; the handler calls
\* caches.open(CACHE_NAME) and hands the chain to event.waitUntil.
InstallStart ==
  /\ wstate["cur"] = "parsed"
  /\ wstate' = [wstate EXCEPT !["cur"] = "installing"]
  /\ installPc' = "open"
  /\ UNCHANGED << cacheVars, active, clientsOpen, skipWaitingFlag, inbox,
                  appVars, installResult, installPromise, activateVars,
                  tasks >>

\* (variant: the catch handler also asks to skip waiting)
InstallCatchSkipWaiting ==
  /\ installPc' = "settled"
  /\ installResult' = "failed"
  /\ installPromise' = "fulfilled"
  /\ skipWaitingFlag' = TRUE

\* .catch((error) => console.error(...)): the handler returns undefined, so
\* the chain handed to waitUntil is fulfilled.
InstallCatch ==
  /\ installPc' = "settled"
  /\ installResult' = "failed"
  /\ installPromise' = "fulfilled"
  /\ UNCHANGED skipWaitingFlag

\* caches.open(CACHE_NAME) settles.
InstallOpen ==
  /\ installPc = "open"
  /\ \E ok \in BOOLEAN :
       IF ok
       THEN /\ cacheNames' = OpenedNames(CACHE_NAME)
            /\ installPc' = "addAll"
            /\ UNCHANGED << installResult, installPromise, skipWaitingFlag >>
       ELSE /\ InstallCatch
            /\ UNCHANGED cacheNames
  /\ UNCHANGED << store, pendingPuts, wstate, active, clientsOpen, inbox,
                  appVars, activateVars, tasks >>

\* (variant: the last manifest entry is left out)
AddAllStoreSkipLast(st) ==
  [st EXCEPT ![CACHE_NAME] =
     [u \in Urls |->
        IF \E i \in 1..(Len(STATIC_CACHE_URLS) - 1) : STATIC_CACHE_URLS[i] = u
        THEN NetResponse(u, 200, CACHE_NAME)
        ELSE st[CACHE_NAME][u]]]

\* The entries a fulfilled cache.addAll(STATIC_CACHE_URLS) has written.
AddAllStore(st) ==
  [st EXCEPT ![CACHE_NAME] =
     [u \in Urls |-> IF u \in ManifestSet THEN NetResponse(u, 200, CACHE_NAME)
                                          ELSE st[CACHE_NAME][u]]]

\* cache.addAll(STATIC_CACHE_URLS) settles: every asset was fetched with an
\* ok status and all are stored, or one asset failed and nothing is stored.
\* On success the next .then logs and calls self.skipWaiting().
InstallAddAll ==
  /\ installPc = "addAll"
  /\ \E failed \in ManifestSet \cup { "none" } :
       IF failed = "none"
       THEN /\ store' = AddAllStore(store)
            /\ installPc' = "settled"
            /\ installResult' = "complete"
            /\ skipWaitingFlag' = TRUE
            /\ installPromise' = "fulfilled"
       ELSE /\ InstallCatch
            /\ UNCHANGED store
  /\ UNCHANGED << cacheNames, pendingPuts, wstate, active, clientsOpen, inbox,
                  appVars, activateVars, tasks >>

\* The browser ends the install phase: the worker becomes installed
\* (waiting) when the waitUntil promise was fulfilled, redundant otherwise.
InstallFinish ==
  /\ wstate["cur"] = "installing"
  /\ installPromise # "pending"
  /\ wstate' = [wstate EXCEPT !["cur"] =
                  IF installPromise = "fulfilled" THEN "installed"
                                                  ELSE "redundant"]
  /\ UNCHANGED << cacheVars, active, clientsOpen, skipWaitingFlag, inbox,
                  appVars, installVars, activateVars, tasks >>

\* ----------------------------------------------------------- activate (cur)
\* A resolution task that has not yet settled its respondWith promise.
InFlight(t) == tasks[t].pc \in { "match", "fetch", "open", "fallback" }

\* Service Worker Has No Pending Events
NoPendingEvents(w) == \A t \in TaskIds : ~(tasks[t].w = w /\ InFlight(t))

\* The pages of the origin are all closed while the new worker waits.
CloseClients ==
  /\ clientsOpen
  /\ wstate["cur"] = "installed"
  /\ clientsOpen' = FALSE
  /\ UNCHANGED << cacheVars, wstate, active, skipWaitingFlag, inbox, appVars,
                  installVars, activateVars, tasks >>

\* The browser promotes the waiting worker (Try Activate) and dispatches the
\* activate event; the handler calls caches.keys().  A waiting worker is
\* promoted when there is no active worker, or when the active worker has no
\* pending events and either no client uses it or the skip waiting flag is
\* set.
Activate ==
  /\ wstate["cur"] = "installed"
  /\ \/ active = "none"
     \/ /\ NoPendingEvents(active)
        /\ (~clientsOpen \/ skipWaitingFlag)
  /\ wstate' = [w \in Workers |->
                  IF w = "cur" THEN "activating"
                  ELSE IF w = active THEN "redundant" ELSE wstate[w]]
  /\ active' = "cur"
  /\ activatePc' = "keys"
  /\ UNCHANGED << cacheVars, clientsOpen, skipWaitingFlag, inbox, appVars,
                  installVars, pendingDeletes, activatePromise, claimed >>
  /\ UNCHANGED tasks

\* .then(() => { log "Activation complete"; return self.clients.claim(); })
ActivateThen ==
  /\ activatePc' = "complete"
  /\ claimed' = TRUE
  /\ activatePromise' = "fulfilled"

\* The names for which the activate handler calls caches.delete.
\* (variant: every name is deleted, the current one included)
StaleNamesAll(names) == Range(names)

\* (variant: the first name of the list is skipped)
StaleNamesSkipFirst(names) ==
  { names[i] : i \in 2..Len(names) } \ { CACHE_NAME }

StaleNames(names) == { n \in Range(names) : n # CACHE_NAME }

\* caches.keys() settles; the map callback starts caches.delete for every
\* name that is not CACHE_NAME, and Promise.all waits for them.
ActivateKeys ==
  /\ activatePc = "keys"
  /\ \E ok \in BOOLEAN :
       IF ok
       THEN /\ pendingDeletes' = StaleNames(cacheNames)
            /\ IF StaleNames(cacheNames) = {}
               THEN ActivateThen
               ELSE /\ activatePc' = "deleting"
                    /\ UNCHANGED << activatePromise, claimed >>
       ELSE /\ activatePc' = "rejected"
            /\ activatePromise' = "rejected"
            /\ UNCHANGED << pendingDeletes, claimed >>
  /\ UNCHANGED << cacheVars, wstate, active, clientsOpen, skipWaitingFlag,
                  inbox, appVars, installVars, tasks >>

\* caches.delete(n) removes the namespace and its entries; a put still in
\* flight into the deleted cache no longer reaches the Cache Storage.
RemoveName(names, n) == SelectSeq(names, LAMBDA m : m # n)

\* (variant: the first fulfilled delete fulfils the combined promise)
PromiseAnyFulfilled(pending, n) == TRUE

\* Promise.all(...) is fulfilled by the fulfilment of n when n is the last of
\* the pending promises.
PromiseAllFulfilled(pending, n) == pending = { n }

\* One caches.delete settles.  Promise.all is fulfilled when the last delete
\* is, and rejected as soon as one delete is; the other deletes still run.
ActivateDelete(n) ==
  /\ n \in pendingDeletes
  /\ pendingDeletes' = pendingDeletes \ { n }
  /\ \E ok \in BOOLEAN :
       IF ok
       THEN /\ cacheNames' = RemoveName(cacheNames, n)
            /\ store' = [store EXCEPT ![n] = EmptyCache]
            /\ pendingPuts' = { p \in pendingPuts : p.name # n }
            /\ IF /\ activatePc = "deleting"
                  /\ PromiseAllFulfilled(pendingDeletes, n)
               THEN ActivateThen
               ELSE UNCHANGED << activatePc, activatePromise, claimed >>
       ELSE /\ UNCHANGED << cacheVars, claimed >>
            /\ IF activatePc = "deleting"
               THEN /\ activatePc' = "rejected"
                    /\ activatePromise' = "rejected"
               ELSE UNCHANGED << activatePc, activatePromise >>
  /\ UNCHANGED << wstate, active, clientsOpen, skipWaitingFlag, inbox,
                  appVars, installVars, tasks >>

\* The browser ends the activate phase once the waitUntil promise settled,
\* fulfilled or rejected: the worker becomes activated.
ActivateFinish ==
  /\ wstate["cur"] = "activating"
  /\ activatePromise # "pending"
  /\ wstate' = [wstate EXCEPT !["cur"] = "activated"]
  /\ UNCHANGED << cacheVars, active, clientsOpen, skipWaitingFlag, inbox,
                  appVars, installVars, activateVars, tasks >>

\* ------------------------------------------------------------ fetch listener
\* (variant: the method of the request is not looked at)
RouteAnyMethod(req) ==
  IF req.destination = "document" THEN "document" ELSE "asset"

\* (variant: every GET request is handed to handleAssetRequest)
RouteAllAssets(req) == IF req.method # "GET" THEN "none" ELSE "asset"

\* The branch the fetch listener takes for a request.
Route(req) ==
  IF req.method # "GET" THEN "none"
  ELSE IF req.destination = "document" THEN "document"
  ELSE "asset"

\* The browser dispatches a fetch event to the active worker.  A non-GET
\* request returns before respondWith; a GET request starts
\* handleDocumentRequest or handleAssetRequest, which call caches.match.
FetchEvent(t, r) ==
  /\ tasks[t].pc = "idle"
  /\ \A s \in TaskIds : s < t => tasks[s].pc # "idle"
  /\ active # "none"
  /\ wstate[active] = "activated"
  /\ tasks' = [tasks EXCEPT ![t] =
                 [IdleTask EXCEPT !.w = active, !.req = r, !.route = Route(r),
                    !.pc = IF Route(r) = "none" THEN "passthrough"
                                                ELSE "match"]]
  /\ clientsOpen' = TRUE
  /\ UNCHANGED << cacheVars, wstate, active, skipWaitingFlag, inbox, appVars,
                  installVars, activateVars >>

\* ------------------------------------------------------- resolution policies
\* The catch block of handleAssetRequest: a fallback typed by the URL.
AssetFallback(url) ==
  IF Includes(url, ".css") THEN CssFallback
  ELSE IF Includes(url, ".js") THEN JsFallback
  ELSE NotFound

\* Entering the catch block.  handleDocumentRequest awaits
\* caches.match("./index.html"); handleAssetRequest returns at once.
Caught(tk, op) ==
  IF tk.route = "document"
  THEN [tk EXCEPT !.cause = op, !.pc = "fallback", !.resp = Absent]
  ELSE [tk EXCEPT !.cause = op, !.pc = "done", !.via = "synthetic",
                  !.resp = AssetFallback(tk.req.url)]

\* (variant: the cached response is ignored and the network is asked)
HitRevalidate(tk, cachedResponse) == [tk EXCEPT !.pc = "fetch"]

\* A hit of the first caches.match: the cached response is returned.
Hit(tk, cachedResponse) ==
  [tk EXCEPT !.via = "cache", !.pc = "done", !.resp = cachedResponse]

\* await caches.match(request) settles.
MatchStep(t) ==
  /\ tasks[t].pc = "match"
  /\ \E ok \in BOOLEAN :
       LET tk == tasks[t]
           cachedResponse == CachesMatch(tk.req.url)
       IN tasks' = [tasks EXCEPT ![t] =
            IF ~ok THEN Caught(tk, "lookup")
            ELSE IF cachedResponse # Absent THEN Hit(tk, cachedResponse)
            ELSE [tk EXCEPT !.pc = "fetch"]]
  /\ UNCHANGED << cacheVars, wstate, active, clientsOpen, skipWaitingFlag,
                  inbox, appVars, installVars, activateVars >>

\* (variant: after a rejected fetch the asset fallback takes the place of the
\* network response and goes on to be cached)
FetchedFallbackCached(tk, outcome) ==
  [tk EXCEPT !.fetches = @ + 1, !.pc = "open",
             !.resp = IF outcome = "rej" THEN AssetFallback(tk.req.url)
                      ELSE NetResponse(tk.req.url,
                                       IF outcome = "ok" THEN 200 ELSE 404,
                                       "fetch")]

\* What the resolution functions do with a settled fetch: any response the
\* network resolves with is taken as networkResponse.
Fetched(tk, outcome) ==
  IF outcome = "rej" THEN Caught([tk EXCEPT !.fetches = @ + 1], "fetch")
  ELSE [tk EXCEPT !.fetches = @ + 1, !.pc = "open",
                  !.resp = NetResponse(tk.req.url,
                                       IF outcome = "ok" THEN 200 ELSE 404,
                                       "fetch")]

\* await fetch(request) settles: an ok response, a non-ok response, or a
\* rejection.
FetchStep(t) ==
  /\ tasks[t].pc = "fetch"
  /\ \E outcome \in { "ok", "notok", "rej" } :
       tasks' = [tasks EXCEPT ![t] = Fetched(tasks[t], outcome)]
  /\ UNCHANGED << cacheVars, wstate, active, clientsOpen, skipWaitingFlag,
                  inbox, appVars, installVars, activateVars >>

\* await caches.open(CACHE_NAME) settles; then cache.put(request, clone) is
\* started without being awaited and networkResponse is returned.
OpenStep(t) ==
  /\ tasks[t].pc = "open"
  /\ LET tk == tasks[t]
         name == CacheNameOf(tk.w)
     IN \E ok \in BOOLEAN :
          IF ok
          THEN /\ cacheNames' = OpenedNames(name)
               /\ pendingPuts' = pendingPuts \cup
                    { [name |-> name, url |-> tk.req.url, resp |-> tk.resp,
                       by |-> t] }
               /\ tasks' = [tasks EXCEPT ![t] =
                              [tk EXCEPT !.pc = "done", !.via = "network"]]
          ELSE /\ tasks' = [tasks EXCEPT ![t] = Caught(tk, "open")]
               /\ UNCHANGED << cacheNames, pendingPuts >>
  /\ UNCHANGED << store, wstate, active, clientsOpen, skipWaitingFlag, inbox,
                  appVars, installVars, activateVars >>

\* (variant: the notice is synthesized without looking for the cached document)
FallbackDoneNoLookup(tk, ok, offlineResponse) ==
  IF ~ok THEN [tk EXCEPT !.pc = "rejected"]
  ELSE [tk EXCEPT !.pc = "done", !.via = "synthetic", !.resp = OfflineNotice]

\* The catch block of handleDocumentRequest after
\* await caches.match("./index.html") settled.
FallbackDone(tk, ok, offlineResponse) ==
  IF ~ok THEN [tk EXCEPT !.pc = "rejected"]
  ELSE IF offlineResponse # Absent
       THEN [tk EXCEPT !.pc = "done", !.via = "fallback",
                       !.resp = offlineResponse]
  ELSE [tk EXCEPT !.pc = "done", !.via = "synthetic", !.resp = OfflineNotice]

FallbackStep(t) ==
  /\ tasks[t].pc = "fallback"
  /\ \E ok \in BOOLEAN :
       tasks' = [tasks EXCEPT ![t] =
                   FallbackDone(tasks[t], ok, CachesMatch("./index.html"))]
  /\ UNCHANGED << cacheVars, wstate, active, clientsOpen, skipWaitingFlag,
                  inbox, appVars, installVars, activateVars >>

\* (variant: the response is stored under the key of the fallback document)
PutStoreFixedKey(st, p) == [st EXCEPT ![p.name]["./index.html"] = p.resp]

\* cache.put(request, response): the entry of the request's key is replaced.
PutStore(st, p) == [st EXCEPT ![p.name][p.url] = p.resp]

\* A cache.put started by a resolution task settles: the entry is written,
\* or the write fails and the rejection is observed by nobody.
PutSettle(p) ==
  /\ p \in pendingPuts
  /\ pendingPuts' = pendingPuts \ { p }
  /\ \E ok \in BOOLEAN :
       IF ok THEN store' = PutStore(store, p)
             ELSE UNCHANGED store
  /\ UNCHANGED << cacheNames, wstate, active, clientsOpen, skipWaitingFlag,
                  inbox, appVars, installVars, activateVars, tasks >>

\* ---------------------------------------------------------- message listener
\* The values of event.data a page can post: nothing, the control message,
\* or a message of a type the worker does not know.
MessageData ==
  { [defined |-> FALSE, type |-> ""],
    [defined |-> TRUE, type |-> "SKIP_WAITING"],
    [defined |-> TRUE, type |-> "PING"] }

\* A page posts a message to the worker "cur", which is running.
PostMessage(data) ==
  /\ inbox = << >>
  /\ wstate["cur"] \in { "installing", "installed", "activating", "activated" }
  /\ inbox' = << data >>
  /\ UNCHANGED << cacheVars, wstate, active, clientsOpen, skipWaitingFlag,
                  installVars, activateVars, tasks, appVars >>

\* (variant: every message that carries data asks to skip waiting)
SkipWaitingRequestedAnyType(data) == data.defined

\* if (event.data && event.data.type === "SKIP_WAITING")
SkipWaitingRequested(data) == data.defined /\ data.type = "SKIP_WAITING"

\* The message listener runs: self.skipWaiting() sets the skip waiting flag
\* for the control message, and nothing happens for any other message.
MessageListener ==
  /\ inbox # << >>
  /\ inbox' = Tail(inbox)
  /\ skipWaitingFlag' =
       IF SkipWaitingRequested(Head(inbox)) THEN TRUE ELSE skipWaitingFlag
  /\ UNCHANGED << cacheVars, wstate, active, clientsOpen, installVars,
                  activateVars, tasks, appVars >>

Next ==
  \/ InstallStart
  \/ InstallOpen
  \/ InstallAddAll
  \/ InstallFinish
  \/ CloseClients
  \/ Activate
  \/ ActivateKeys
  \/ \E n \in Names : ActivateDelete(n)
  \/ ActivateFinish
  \/ \E t \in TaskIds, r \in Requests : FetchEvent(t, r)
  \/ \E t \in TaskIds : MatchStep(t)
  \/ \E t \in TaskIds : FetchStep(t)
  \/ \E t \in TaskIds : OpenStep(t)
  \/ \E t \in TaskIds : FallbackStep(t)
  \/ \E p \in pendingPuts : PutSettle(p)

\* The worker as the application deploys it: script.js registers the worker
\* and posts no message to it.
Spec == Init /\ [][Next]_vars

\* The worker together with a page that uses the control channel.
NextControl ==
  \/ Next
  \/ \E data \in MessageData : PostMessage(data)
  \/ MessageListener

SpecControl == Init /\ [][NextControl]_vars

\* --------------------------------------------------------- script.js (page)
\* saveContent(): localStorage.setItem stores the textarea's value, or throws
\* and the catch block shows the error status.
SaveContent(ok) ==
  IF ok THEN localStorage' = textarea /\ saveStatus' = "saved"
        ELSE localStorage' = localStorage /\ saveStatus' = "error"

\* handleInput(): the user changed the textarea to content; the scheduled
\* save, if any, is cleared and a new one is scheduled after SAVE_DELAY.
HandleInput(content) ==
  /\ saveTimeout < MaxInputs
  /\ textarea' = content
  /\ lastTyped' = content
  /\ saveStatus' = "saving"
  /\ saveTimeout' = saveTimeout + 1
  /\ timers' = (timers \ { saveTimeout }) \cup { saveTimeout + 1 }
  /\ UNCHANGED << localStorage, workerVars >>

\* The timer set by handleInput fires: saveContent().
SaveTimerFires(id) ==
  /\ id \in timers
  /\ timers' = timers \ { id }
  /\ \E ok \in BOOLEAN : SaveContent(ok)
  /\ UNCHANGED << textarea, saveTimeout, lastTyped, workerVars >>

\* loadContent(): the saved item, if there is one, replaces the textarea's
\* value; a throwing localStorage.getItem shows the error status.
LoadContent(ok) ==
  IF ~ok THEN textarea' = textarea /\ saveStatus' = "error"
  ELSE IF localStorage # NoItem
       THEN textarea' = localStorage /\ saveStatus' = "saved"
  ELSE UNCHANGED << textarea, saveStatus >>

\* handleWindowFocus(): the window regains the focus.
HandleWindowFocus ==
  /\ \E ok \in BOOLEAN : LoadContent(ok)
  /\ UNCHANGED << localStorage, saveTimeout, timers, lastTyped, workerVars >>

NextApp ==
  \/ \E content \in Contents : HandleInput(content)
  \/ \E id \in 1..MaxInputs : SaveTimerFires(id)
  \/ HandleWindowFocus

\* The page of the application, opened on a first visit or on a return with
\* content saved by an earlier visit.
InitApp == InitWorker /\ \E item \in Contents \cup { NoItem } : LoadedPage(item)

SpecApp == InitApp /\ [][NextApp]_vars

\* =================================================================== claims
\* The resolution task t has returned a response.
Done(t) == tasks[t].pc = "done"

\* Response.ok: a status in the success range.
IsOk(r) == r.status >= 200 /\ r.status <= 299

\* C1 - population completeness: once the install chain has run its success
\* branch ("Installation complete"), the namespace CACHE_NAME exists and holds,
\* for every asset of STATIC_CACHE_URLS, a stored ok response for that asset.
PopulationComplete ==
  installResult = "complete" =>
    /\ CACHE_NAME \in Range(cacheNames)
    /\ \A a \in ManifestSet :
         /\ store[CACHE_NAME][a] # Absent
         /\ store[CACHE_NAME][a].body = a
         /\ IsOk(store[CACHE_NAME][a])

\* the install succeeded next to a previous version's populated namespace
PopulationCompleteWitness ==
  /\ installResult = "complete"
  /\ wstate["cur"] = "installed"
  /\ PREV_CACHE_NAME \in Range(cacheNames)
  /\ \A a \in ManifestSet : store[CACHE_NAME][a] # Absent

\* C2 - atomic-manifest install: when opening the namespace or fetching or
\* storing a manifest asset failed, the promise handed to event.waitUntil is
\* rejected and the worker never becomes waiting (installed) or active.
InstallFailureAborts ==
  installResult = "failed" =>
    /\ installPromise = "rejected"
    /\ wstate["cur"] \notin { "installed", "activating", "activated" }

\* C3 - purge completeness: once the activate chain has run to its end
\* ("Activation complete"), whatever namespaces existed before, no namespace
\* other than CACHE_NAME exists.
PurgeComplete ==
  activatePc = "complete" => \A n \in Range(cacheNames) : n = CACHE_NAME

\* activate completed for a worker that superseded a previous version, whose
\* namespaces existed when activate began
PurgeCompleteWitness ==
  /\ activatePc = "complete"
  /\ wstate["prev"] = "redundant"
  /\ cacheNames = << CACHE_NAME >>

\* A finished request for a manifest asset, handled after the install and the
\* activate both completed, was answered from CACHE_NAME without the network.
OfflineServed ==
  \A t \in TaskIds :
    ( /\ Done(t)
      /\ tasks[t].w = "cur"
      /\ installResult = "complete"
      /\ activatePc = "complete"
      /\ tasks[t].req.url \in ManifestSet
      /\ tasks[t].cause # "lookup" )
    => /\ tasks[t].via = "cache"
       /\ tasks[t].fetches = 0
       /\ tasks[t].resp = NetResponse(tasks[t].req.url, 200, CACHE_NAME)

\* No step of the activate handler removes CACHE_NAME or changes its entries.
ActivateKeepsCurrent ==
  [][ (activatePc' # activatePc \/ pendingDeletes' # pendingDeletes)
      => /\ store'[CACHE_NAME] = store[CACHE_NAME]
         /\ (CACHE_NAME \in Range(cacheNames)
               => CACHE_NAME \in Range(cacheNames')) ]_vars

CacheFirstStep ==
  [][ \A t \in TaskIds :
        ( /\ tasks[t].pc = "match"
          /\ tasks'[t].pc # "match"
          /\ tasks'[t].cause # "lookup"
          /\ CachesMatch(tasks[t].req.url) # Absent )
        => /\ tasks'[t].pc = "done"
           /\ tasks'[t].resp = CachesMatch(tasks[t].req.url)
           /\ tasks'[t].fetches = 0
           /\ cacheNames' = cacheNames
           /\ store' = store
           /\ pendingPuts' = pendingPuts ]_vars

\* A response served from the cache was obtained without a network fetch.
CacheServedWithoutNetwork ==
  \A t \in TaskIds :
    (Done(t) /\ tasks[t].via = "cache")
      => (tasks[t].fetches = 0 /\ tasks[t].resp # Absent)

\* C5 - cache-first idempotence: whenever the first caches.match of a
\* resolution task (either route) settles without failing while the request
\* is cached, the task returns exactly the stored response, has performed no
\* network fetch, and leaves namespaces, entries and pending writes as they
\* were; so does every repetition.
CacheFirstIdempotent == []CacheServedWithoutNetwork /\ CacheFirstStep

\* the same cached asset request was resolved twice, with the same response
CacheFirstIdempotentWitness ==
  \E t1, t2 \in TaskIds :
    /\ t1 # t2
    /\ Done(t1) /\ Done(t2)
    /\ tasks[t1].req = tasks[t2].req
    /\ tasks[t1].route = "asset"
    /\ tasks[t1].via = "cache" /\ tasks[t2].via = "cache"
    /\ tasks[t1].resp = tasks[t2].resp
    /\ tasks[t1].fetches = 0 /\ tasks[t2].fetches = 0

\* C6 - document total failure: when handleDocumentRequest reached its catch
\* block because the request was not cached and the network fetch rejected,
\* and the lookup of "./index.html" answers, it returns the cached
\* "./index.html" entry if there is one, and otherwise the synthesized
\* notice: status 2xx, content type text/html, a non-empty body.
DocumentTotalFailure ==
  [][ \A t \in TaskIds :
        ( /\ tasks[t].pc = "fallback"
          /\ tasks[t].cause = "fetch"
          /\ tasks'[t].pc = "done" )
        => IF CachesMatch("./index.html") # Absent
           THEN tasks'[t].resp = CachesMatch("./index.html")
           ELSE /\ tasks'[t].resp.src = "synthetic"
                /\ IsOk(tasks'[t].resp)
                /\ tasks'[t].resp.ctype = "text/html"
                /\ tasks'[t].resp.body # "" ]_vars

\* a document request missed the cache, its fetch rejected, no fallback
\* document was cached, and the synthesized notice was returned
DocumentTotalFailureWitness ==
  \E t \in TaskIds :
    /\ Done(t)
    /\ tasks[t].route = "document"
    /\ tasks[t].cause = "fetch"
    /\ tasks[t].resp = OfflineNotice
    /\ CachesMatch("./index.html") = Absent

\* C7 - the document path never propagates a failure: under every combination
\* of failures of cache lookup, fetch, namespace open, cache write and
\* fallback lookup, the promise of handleDocumentRequest is never rejected.
DocumentNeverRejects ==
  \A t \in TaskIds :
    tasks[t].route = "document" => tasks[t].pc # "rejected"

\* The asset type inferred from the extension of a path.
EndsWith(s, suffix) ==
  /\ Len(s) >= Len(suffix)
  /\ SubSeq(s, Len(s) - Len(suffix) + 1, Len(s)) = suffix

InferredType(url) ==
  IF EndsWith(url, ".css") THEN "style"
  ELSE IF EndsWith(url, ".js") THEN "script"
  ELSE "other"

\* An asset request that missed the cache and whose network fetch rejected.
AssetTotalFailure(t) ==
  Done(t) /\ tasks[t].route = "asset" /\ tasks[t].cause = "fetch"

\* C8 - asset total failure, typed fallback: after a cache miss and a rejected
\* fetch, a stylesheet request gets a 2xx response of type text/css and a
\* script request gets a 2xx no-op script of a JavaScript type; the task is
\* not rejected and does not return the fallback document.
AssetTypedFallback ==
  \A t \in TaskIds :
    /\ tasks[t].route = "asset" => tasks[t].pc # "rejected"
    /\ AssetTotalFailure(t) =>
         /\ tasks[t].resp.body # "./index.html"
         /\ InferredType(tasks[t].req.url) = "style" =>
              (IsOk(tasks[t].resp) /\ tasks[t].resp.ctype = "text/css")
         /\ InferredType(tasks[t].req.url) = "script" =>
              /\ IsOk(tasks[t].resp)
              /\ tasks[t].resp.ctype = "application/javascript"
              /\ tasks[t].resp.body # ""

\* C9 - asset total failure, explicit absence: after a cache miss and a
\* rejected fetch, a request whose type inferred from the extension is
\* neither style sheet nor script gets a 404 response.
AssetExplicitAbsence ==
  \A t \in TaskIds :
    (AssetTotalFailure(t) /\ InferredType(tasks[t].req.url) = "other")
      => tasks[t].resp.status = 404

\* C10 - only ok responses are cache-worthy: no entry written by a resolution
\* task holds a non-2xx response, no such write is pending, and no task
\* returns a non-2xx network response.
OnlyOkCacheWorthy ==
  /\ \A n \in Names, u \in Urls :
       store[n][u].src = "fetch" => IsOk(store[n][u])
  /\ \A p \in pendingPuts : IsOk(p.resp)
  /\ \A t \in TaskIds :
       (Done(t) /\ tasks[t].via = "network") => IsOk(tasks[t].resp)

\* The dispatch of a non-GET fetch event ends the listener at once: no
\* resolution function is started and the Cache Storage is left as it was.
NonGetDispatch ==
  [][ \A t \in TaskIds :
        ( /\ tasks[t].pc = "idle"
          /\ tasks'[t].pc # "idle"
          /\ tasks'[t].req.method # "GET" )
        => /\ tasks'[t].pc = "passthrough"
           /\ tasks'[t].route = "none"
           /\ cacheNames' = cacheNames
           /\ store' = store
           /\ pendingPuts' = pendingPuts ]_vars

\* A non-GET event never looks up, fetches, opens or writes, and only the
\* task of a GET request is ever at a lookup or at a cache write.
NonGetUntouched ==
  \A t \in TaskIds :
    /\ tasks[t].pc = "passthrough" <=>
         (tasks[t].pc # "idle" /\ tasks[t].req.method # "GET")
    /\ tasks[t].pc = "passthrough" =>
         /\ tasks[t].cause = "none"
         /\ tasks[t].via = "none"
         /\ tasks[t].fetches = 0
         /\ tasks[t].resp = Absent
    /\ tasks[t].pc \in { "match", "fetch", "open", "fallback", "done" } =>
         tasks[t].req.method = "GET"

\* C11 - GET-only cache: for a non-GET fetch event the listener returns
\* without respondWith and without a cache lookup or write; the namespaces,
\* entries and pending writes are unchanged by it, and every lookup and every
\* write into the cache belongs to a GET request.
GetOnlyCache == []NonGetUntouched /\ NonGetDispatch

\* a POST for a URL the current namespace holds an entry for was dispatched
\* to the new worker and passed through
GetOnlyCacheWitness ==
  \E t \in TaskIds :
    /\ tasks[t].pc = "passthrough"
    /\ tasks[t].req.method = "POST"
    /\ tasks[t].w = "cur"
    /\ store[CACHE_NAME][tasks[t].req.url] # Absent

\* The step in which the message listener handles a message: the control
\* message sets the skip waiting flag; any other message changes nothing.
\* Neither touches the lifecycle states, the Cache Storage, the handlers'
\* promise chains or the resolution tasks.
MessageStep ==
  [][ (inbox # << >> /\ inbox' # inbox)
      => /\ inbox' = Tail(inbox)
         /\ IF Head(inbox) = [defined |-> TRUE, type |-> "SKIP_WAITING"]
            THEN skipWaitingFlag'
            ELSE skipWaitingFlag' = skipWaitingFlag
         /\ UNCHANGED << cacheVars, wstate, active, clientsOpen, installVars,
                         activateVars, tasks >> ]_vars

\* A waiting worker whose skip waiting flag is set is promoted as soon as
\* the active worker has no event in progress, open clients or not.
PromotionNotBlocked ==
  ( /\ wstate["cur"] = "installed"
    /\ skipWaitingFlag
    /\ active # "none" => NoPendingEvents(active) )
  => ENABLED Activate

\* C12 - control channel: the message {type: "SKIP_WAITING"} sets the skip
\* waiting flag, with which the waiting worker is promoted although clients
\* of the previous version are open; a message without data or of another
\* type causes no lifecycle transition, no cache change and no error.
ControlChannel == []PromotionNotBlocked /\ MessageStep

\* the install failed, so it did not ask to skip waiting; the control message
\* arrived while the worker waited and the worker took over from the previous
\* version while its clients were open
ControlChannelWitness ==
  /\ installResult = "failed"
  /\ skipWaitingFlag
  /\ inbox = << >>
  /\ wstate["cur"] = "activating"
  /\ wstate["prev"] = "redundant"
  /\ clientsOpen

\* C13 - activation purge failure is non-fatal: the step in which
\* caches.delete of one stale namespace fails (the namespace is still there)
\* does not reject the activate chain and leaves the other deletes running,
\* and when it was the last delete to settle the chain runs to its end and
\* the clients are claimed.
PurgeFailureNonFatal ==
  [][ \A n \in Names :
        ( /\ n \in pendingDeletes
          /\ n \notin pendingDeletes'
          /\ n \in Range(cacheNames') )
        => /\ pendingDeletes' = pendingDeletes \ { n }
           /\ activatePromise' # "rejected"
           /\ pendingDeletes' = {} => (activatePc' = "complete" /\ claimed')
    ]_vars

\* C14 - every intercepted request resolves to one response: the task of a
\* GET fetch event is run by exactly one of the two resolution functions, its
\* respondWith promise is never rejected, and when it has settled it carries
\* a response, whatever the other requests, the lifecycle and the messages do.
EveryRequestResolves ==
  \A t \in TaskIds :
    (tasks[t].pc # "idle" /\ tasks[t].req.method = "GET")
      => /\ tasks[t].route \in { "document", "asset" }
         /\ tasks[t].pc # "rejected"
         /\ ~InFlight(t) => (Done(t) /\ tasks[t].resp # Absent)

\* At most one save timer is pending.
OneSaveTimer == Cardinality(timers) <= 1

\* The step in which the save timer fires and the write succeeds stores the
\* content of the user's last input.
SaveStoresLastTyped ==
  [][ ( /\ timers # {}
        /\ timers' = {}
        /\ saveTimeout' = saveTimeout
        /\ saveStatus' = "saved" )
      => localStorage' = lastTyped ]_vars

\* While a save is pending the textarea changes only through an input event.
NoReloadWhilePending ==
  [][ (timers # {} /\ textarea' # textarea)
      => (saveTimeout' # saveTimeout /\ textarea' = lastTyped') ]_vars

\* C15 - auto-save keeps what was typed: at most one save timer is pending;
\* when the pending timer fires after the last input and the write succeeds,
\* localStorage holds the last typed content; and no reload of the saved
\* content replaces the textarea's content while a save is pending.
AutoSaveKeepsTyped ==
  []OneSaveTimer /\ SaveStoresLastTyped /\ NoReloadWhilePending

\* C16 - write-through ordering: in the step in which a resolution task
\* returns a successfully fetched response after a cache miss, the namespace
\* of its worker holds the copy of that response under the request, so a
\* lookup of the same request hits.
WriteThroughOrdering ==
  [][ \A t \in TaskIds :
        ( /\ tasks[t].pc = "open"
          /\ tasks'[t].pc = "done"
          /\ tasks'[t].via = "network"
          /\ IsOk(tasks'[t].resp) )
        => /\ store'[CacheNameOf(tasks[t].w)][tasks[t].req.url]
                = tasks'[t].resp
           /\ MatchIn(cacheNames', store', tasks[t].req.url) # Absent ]_vars

\* C17 - cache lookups are confined to the current namespace: in the step in
\* which a task of the worker returns a response found by a cache lookup (of
\* the request, or of "./index.html" in the document fallback), that response
\* is the entry of the namespace CACHE_NAME.
LookupsConfined ==
  [][ \A t \in TaskIds :
        ( /\ tasks[t].w = "cur"
          /\ tasks[t].pc \in { "match", "fallback" }
          /\ tasks'[t].pc = "done"
          /\ tasks'[t].via \in { "cache", "fallback" } )
        => tasks'[t].resp =
             store[CACHE_NAME][IF tasks'[t].via = "cache"
                               THEN tasks[t].req.url ELSE "./index.html"]
    ]_vars

\* C18 - namespace lifecycle has a single writer: a namespace comes into
\* being only in the step in which the install handler's caches.open
\* settles, and goes away only in the step in which a caches.delete of the
\* activate handler settles; no step of a resolution task adds or removes a
\* namespace.
NamespaceSingleWriter ==
  [][ /\ \A n \in Range(cacheNames') \ Range(cacheNames) :
           /\ n = CACHE_NAME
           /\ installPc = "open"
           /\ installPc' = "addAll"
      /\ \A n \in Range(cacheNames) \ Range(cacheNames') :
           /\ n \in pendingDeletes
           /\ n \notin pendingDeletes'
      /\ tasks' # tasks => Range(cacheNames') = Range(cacheNames) ]_vars

\* The install handler asks to skip waiting exactly in the step that ends a
\* successful install, when every manifest asset is stored.
InstallSignalStep ==
  [][ installPc' # installPc
      => /\ skipWaitingFlag' # skipWaitingFlag =>
              /\ installResult' = "complete"
              /\ \A a \in ManifestSet : store'[CACHE_NAME][a] # Absent
         /\ installResult' = "complete" => skipWaitingFlag'
         /\ installResult' = "failed" => skipWaitingFlag' = skipWaitingFlag
    ]_vars

\* With no other sender of the signal, the flag is set if and only if the
\* install completed; and a waiting worker whose install completed is
\* promoted as soon as the active worker has no event in progress, although
\* clients of the previous version are open.
SignalIffComplete ==
  /\ skipWaitingFlag <=> installResult = "complete"
  /\ ( /\ wstate["cur"] = "installed"
       /\ installResult = "complete"
       /\ clientsOpen
       /\ active # "none" => NoPendingEvents(active) )
     => ENABLED Activate

\* C19 - eager promotion on install: self.skipWaiting() is called by the
\* install handler only after every manifest asset has been stored, on every
\* successful install and on no failed one, so that a successfully installed
\* worker does not stay waiting while clients of the previous version are
\* open.
EagerPromotion == []SignalIffComplete /\ InstallSignalStep

\* the install completed next to an active previous version and the worker
\* was promoted while that version's clients were open
EagerPromotionWitness ==
  /\ installResult = "complete"
  /\ skipWaitingFlag
  /\ wstate["cur"] = "activating"
  /\ wstate["prev"] = "redundant"
  /\ clientsOpen
  /\ \A a \in ManifestSet : store[CACHE_NAME][a] # Absent

\* The step in which the activate chain calls self.clients.claim() is taken
\* with the delete of every stale namespace settled and no stale namespace
\* left.
ClaimStep ==
  [][ (~claimed /\ claimed')
      => /\ pendingDeletes' = {}
         /\ activatePc' = "complete"
         /\ \A n \in Range(cacheNames') : n = CACHE_NAME ]_vars

\* Clients are never claimed while a delete started by the activate handler
\* is pending.
NoClaimWhileDeleting == claimed => pendingDeletes = {}

\* C20 - claim follows purge: clients are claimed only after the deletion of
\* every stale namespace has completed; in no reachable state are the clients
\* claimed while a stale namespace deletion started by the activate handler
\* is still pending.
ClaimFollowsPurge == []NoClaimWhileDeleting /\ ClaimStep

\* the clients were claimed by the worker that purged the two namespaces of
\* the earlier deployments
ClaimFollowsPurgeWitness ==
  /\ claimed
  /\ wstate["cur"] = "activated"
  /\ wstate["prev"] = "redundant"
  /\ installResult = "complete"
  /\ cacheNames = << CACHE_NAME >>
  /\ clientsOpen

\* The route a dispatched fetch event has taken is the one its method and
\* destination determine, and two events with the same method and
\* destination have taken the same route.
RouteByMethodAndDestination ==
  /\ \A t \in TaskIds :
       tasks[t].pc # "idle" =>
         /\ tasks[t].req.method # "GET" => tasks[t].route = "none"
         /\ (tasks[t].req.method = "GET"
               /\ tasks[t].req.destination = "document")
              => tasks[t].route = "document"
         /\ (tasks[t].req.method = "GET"
               /\ tasks[t].req.destination # "document")
              => tasks[t].route = "asset"
  /\ \A t1, t2 \in TaskIds :
       ( /\ tasks[t1].pc # "idle"
         /\ tasks[t2].pc # "idle"
         /\ tasks[t1].req.method = tasks[t2].req.method
         /\ tasks[t1].req.destination = tasks[t2].req.destination )
       => tasks[t1].route = tasks[t2].route

\* The step that classifies a fetch event changes neither the Cache Storage
\* nor the lifecycle nor another task, and starts the function of the route.
RouteStep ==
  [][ \A t \in TaskIds :
        (tasks[t].pc = "idle" /\ tasks'[t].pc # "idle")
        => /\ UNCHANGED << cacheVars, wstate, active, skipWaitingFlag,
                           installVars, activateVars >>
           /\ \A s \in TaskIds \ { t } : tasks'[s] = tasks[s]
           /\ tasks'[t].pc =
                (IF tasks'[t].route = "none" THEN "passthrough" ELSE "match")
    ]_vars

\* C21 - router classification: the route of a fetch event is a function of
\* the request's method and destination alone - GET with destination
\* document to handleDocumentRequest, every other GET to handleAssetRequest,
\* non-GET to neither - whatever the cache and the lifecycle state are, and
\* classifying has no side effect.
RouterDeterministic == []RouteByMethodAndDestination /\ RouteStep

\* two document requests for different URLs, one cached and one not, were
\* dispatched to the previous version and to the new worker: same route
RouterDeterministicWitness ==
  \E t1, t2 \in TaskIds :
    /\ tasks[t1].w = "prev" /\ tasks[t2].w = "cur"
    /\ tasks[t1].req = Req("GET", "document", "./")
    /\ tasks[t2].req = Req("GET", "document", "./notes.html")
    /\ tasks[t1].route = "document" /\ tasks[t2].route = "document"
    /\ tasks[t1].via = "cache"
    /\ CachesMatch("./notes.html") = Absent

\* Two different tasks of the worker for the same request, both of which
\* missed the cache and fetched an ok response.
SameKeyRace(t1, t2) ==
  /\ t1 # t2
  /\ tasks[t1].w = "cur" /\ tasks[t2].w = "cur"
  /\ tasks[t1].req = tasks[t2].req
  /\ tasks[t1].via = "network" /\ tasks[t2].via = "network"
  /\ IsOk(tasks[t1].resp) /\ IsOk(tasks[t2].resp)

\* Both tasks of a same-key race have returned, with equivalent responses,
\* and the key's entry in CACHE_NAME, once written, is that content.
RaceOutcome ==
  \A t1, t2 \in TaskIds :
    SameKeyRace(t1, t2)
      => /\ Done(t1) /\ Done(t2)
         /\ tasks[t1].resp # Absent
         /\ tasks[t1].resp = tasks[t2].resp
         /\ store[CACHE_NAME][tasks[t1].req.url]
              \in { Absent, tasks[t1].resp }
         /\ \A p \in pendingPuts :
              p.by \in { t1, t2 } =>
                /\ p.name = CACHE_NAME
                /\ p.url = tasks[p.by].req.url
                /\ p.resp = tasks[p.by].resp

\* A put that settles by writing replaces the entry of its own key by its
\* own response and leaves every other entry as it was: last write wins.
LastWriteWins ==
  [][ \A p \in pendingPuts :
        ( /\ pendingPuts' = pendingPuts \ { p }
          /\ pendingDeletes' = pendingDeletes
          /\ store' # store )
        => /\ store'[p.name][p.url] = p.resp
           /\ \A n \in Names, u \in Urls :
                (n # p.name \/ u # p.url) => store'[n][u] = store[n][u]
    ]_vars

\* C22 - accepted same-key race: two concurrent tasks for the same uncached
\* request whose fetches both succeed both return a response, under every
\* interleaving of their steps, and the cache ends with one entry for the key
\* whose content is what either task fetched (last write wins).
SameKeyRaceAccepted == []RaceOutcome /\ LastWriteWins

\* both tasks missed, fetched and returned, and both writes have settled: the
\* key's entry is the fetched content
SameKeyRaceAcceptedWitness ==
  \E t1, t2 \in TaskIds :
    /\ SameKeyRace(t1, t2)
    /\ pendingPuts = {}
    /\ installResult = "complete"
    /\ store[CACHE_NAME][tasks[t1].req.url] = tasks[t1].resp

\* The responses the worker synthesizes.
Synthetic == { OfflineNotice, CssFallback, JsFallback, NotFound }

\* Every entry of the Cache Storage is a manifest asset stored by the install
\* of its namespace or a network response stored by a resolution task, and
\* so is the content of every write in flight.
EntriesFromNetwork ==
  /\ \A n \in Names, u \in Urls :
       store[n][u] # Absent =>
         /\ store[n][u] \notin Synthetic
         /\ store[n][u].body = u
         /\ \/ store[n][u].src = "fetch"
            \/ (store[n][u].src = n /\ u \in ManifestSet)
  /\ \A p \in pendingPuts :
       p.resp \notin Synthetic /\ p.resp.src = "fetch" /\ p.resp.body = p.url

\* No step of a task on its failure path - entering the catch block, the
\* fallback lookup, returning a synthesized response - changes the Cache
\* Storage or starts a write.
FailurePathFrame ==
  [][ \A t \in TaskIds :
        ( /\ tasks'[t] # tasks[t]
          /\ \/ tasks'[t].cause # "none"
             \/ tasks'[t].via \in { "fallback", "synthetic" } )
        => /\ cacheNames' = cacheNames
           /\ store' = store
           /\ pendingPuts' = pendingPuts ]_vars

\* C23 - synthetic responses are never cached: each entry of the Cache
\* Storage was written by an install from the manifest or by a resolution
\* task from a network response; the offline notice, the stylesheet and
\* script fallbacks and the 404 response are never written; and a resolution
\* that ends on the failure path leaves the Cache Storage unchanged.
SyntheticNeverCached == []EntriesFromNetwork /\ FailurePathFrame

\* one request ended with a synthesized response and left no entry, while
\* another request's network response was written by its task
SyntheticNeverCachedWitness ==
  \E t1, t2 \in TaskIds :
    /\ Done(t1) /\ tasks[t1].via = "synthetic"
    /\ tasks[t1].resp \in Synthetic
    /\ \A n \in Names : store[n][tasks[t1].req.url] = Absent
    /\ Done(t2) /\ tasks[t2].via = "network"
    /\ store[CACHE_NAME][tasks[t2].req.url] = tasks[t2].resp
    /\ pendingPuts = {}
====
